---- MODULE Spec2Model ----
(***************************************************************************)
(* CTNR (Compile Type Name Reflector), src/CTNR.hpp.                       *)
(*                                                                         *)
(* The header computes, during translation, the short name of a type T    *)
(* from the text of __PRETTY_FUNCTION__ / __FUNCSIG__ of FFN<T>.  The      *)
(* model follows one translation: the two namespace-scope constants        *)
(* s_OffsetStart and s_OffsetREnd are initialised first (calibration on    *)
(* FFN<void>), then GetName<T> is requested for types in any order; the    *)
(* first request of a type instantiates TNH<T> (s_Len, then the ISeq       *)
(* recursion one template instantiation per step, then the gather at the   *)
(* Gen = 0 specialisation), later requests refer to the same object.       *)
(*                                                                         *)
(* A character string is a sequence of one-character strings; the          *)
(* terminator of a literal is not stored in the sequence: reading the      *)
(* element at offset Len(lit) yields NUL, reading or pointing further is   *)
(* outside the array.  An operation that has undefined behaviour is not a  *)
(* constant expression, and every evaluation below initialises a constexpr *)
(* object, so its only outcome is a rejected translation (build failed).   *)
(*                                                                         *)
(* unsigned is 32 bits wide.  An unsigned value u is represented by the    *)
(* integer of -2^31 .. 2^31 - 1 congruent to u modulo 2^32, so that + and  *)
(* - on representatives are + and - of unsigned: 0 - 1 is the              *)
(* representative -1 of 4294967295.  A negative representative is a value  *)
(* of at least 2^31.                                                       *)
(***************************************************************************)
EXTENDS Integers, Sequences, FiniteSets, Bags, TLC

\* ------------------------------------------------------------------ bounds
\* Largest number of ISeq instantiations followed for one TNH<T>.
MaxPeel == 40
\* Longest input handed to CTFV in the scan specification.
MaxScanLen == 6

\* --------------------------------------------------------------- constants
NUL == "NUL"

\* A pointer into a literal is its offset 0 .. Len(lit) + 1 (the array holds
\* the terminator, and one past its end may be pointed to but not read);
\* any other pointer value is OutOfBounds.
OutOfBounds == -1

\* The literal "void" indexed by CTFV.
VoidLiteral == <<"v","o","i","d">>

\* --------------------------------------------------- signature text (FFN)
\* Boilerplate around the template argument in the signature of FFN<T>.
GnuPrefix ==
  <<"c","o","n","s","t","e","x","p","r"," ","c","o","n","s","t"," ","c","h","a","r","*"," ","C","T","N","R",":",":","I","m","p","l",":",":","F","F","N","(",")"," ","[","w","i","t","h"," ","T"," ","="," ">>
GnuSuffix ==
  <<"]">>
ClangPrefix ==
  <<"c","o","n","s","t"," ","c","h","a","r"," ","*","C","T","N","R",":",":","I","m","p","l",":",":","F","F","N","(",")"," ","[","T"," ","="," ">>
ClangSuffix ==
  <<"]">>
MsvcPrefix ==
  <<"c","o","n","s","t"," ","c","h","a","r"," ","*","_","_","c","d","e","c","l"," ","C","T","N","R",":",":","I","m","p","l",":",":","F","F","N","<">>
MsvcSuffix ==
  <<">","(","v","o","i","d",")">>
FuncPrefix ==
  <<"c","o","n","s","t"," ","c","h","a","r"," ","*","C","T","N","R",":",":","I","m","p","l",":",":","F","F","N","(",")">>
EarlyPrefix ==
  <<"v","o","i","d"," ","F","F","N","<">>
EarlySuffix ==
  <<">">>
\* The template argument as each compiler writes it in the signature: the
\* argument is printed whole, qualifiers included (g++ "classy*", clang++
\* "classy *", MSVC with the class-key, "class classy*").
GnuSpelling(T) ==
  CASE T = "void" -> <<"v","o","i","d">>
    [] T = "classy" -> <<"c","l","a","s","s","y">>
    [] T = "classy*" -> <<"c","l","a","s","s","y","*">>
    [] T = "structy<classy>" -> <<"s","t","r","u","c","t","y","<","c","l","a","s","s","y",">">>
    [] T = "structy<classy> const&" -> <<"c","o","n","s","t"," ","s","t","r","u","c","t","y","<","c","l","a","s","s","y",">","&">>
ClangSpelling(T) ==
  CASE T = "void" -> <<"v","o","i","d">>
    [] T = "classy" -> <<"c","l","a","s","s","y">>
    [] T = "classy*" -> <<"c","l","a","s","s","y"," ","*">>
    [] T = "structy<classy>" -> <<"s","t","r","u","c","t","y","<","c","l","a","s","s","y",">">>
    [] T = "structy<classy> const&" -> <<"c","o","n","s","t"," ","s","t","r","u","c","t","y","<","c","l","a","s","s","y",">"," ","&">>
MsvcSpelling(T) ==
  CASE T = "void" -> <<"v","o","i","d">>
    [] T = "classy" -> <<"c","l","a","s","s"," ","c","l","a","s","s","y">>
    [] T = "classy*" -> <<"c","l","a","s","s"," ","c","l","a","s","s","y","*">>
    [] T = "structy<classy>" -> <<"s","t","r","u","c","t"," ","s","t","r","u","c","t","y","<","c","l","a","s","s"," ","c","l","a","s","s","y",">">>
    [] T = "structy<classy> const&" -> <<"c","o","n","s","t"," ","s","t","r","u","c","t"," ","s","t","r","u","c","t","y","<","c","l","a","s","s"," ","c","l","a","s","s","y",">","&">>

Spelling(style, T) ==
  CASE style = "gnu" -> GnuSpelling(T)
    [] style = "clang" -> ClangSpelling(T)
    [] style = "msvc" -> MsvcSpelling(T)
    [] style = "func" -> <<>>

\* The translation environments: g++, clang++, MSVC, and two environments
\* that pass the compiler test of the header but lay the signature out
\* differently: one whose text is the declaration without the template
\* argument, one whose text names a void before the argument.
Compilers ==
  { [style |-> "gnu",   prefix |-> GnuPrefix,   suffix |-> GnuSuffix],
    [style |-> "clang", prefix |-> ClangPrefix, suffix |-> ClangSuffix],
    [style |-> "msvc",  prefix |-> MsvcPrefix,  suffix |-> MsvcSuffix],
    [style |-> "func",  prefix |-> FuncPrefix,  suffix |-> <<>>],
    [style |-> "gnu",   prefix |-> EarlyPrefix, suffix |-> EarlySuffix] }

RegularTypes ==
  {"void", "classy", "classy*", "structy<classy>", "structy<classy> const&"}

\* One more type, whose signature does not follow the layout of the others.
Types == RegularTypes \cup {"irregular"}

IrregularKinds == {"empty", "prefixOnly", "noSpelling"}

VARIABLES
  compiler,       \* the translation environment (fixed for one translation)
  irregularKind,  \* how the signature of the irregular type is laid out
  build,          \* "ok" | "failed"
  pc,             \* "start" | "rend" | "ready" : progress of the calibration
  s_OffsetStart,
  s_OffsetREnd,
  cur,            \* the TNH<T> being instantiated
  records,        \* bag of the TNH<T> objects that exist: [type, s_Len, s_Str]
  requested,      \* types GetName was requested for
  ret,            \* what the last completed GetName<T>() referred to: empty, or
                  \* one [rec, first], first telling that this use instantiated TNH<T>
  scanIn,         \* scan specification: the input of CTFV
  scanOut         \* scan specification: the result of CTFV (set of <= 1 number)

vars == <<compiler, irregularKind, build, pc, s_OffsetStart, s_OffsetREnd,
          cur, records, requested, ret, scanIn, scanOut>>

\* template <typename T> constexpr const char* FFN()
FFNText(c, k, T) ==
  IF T = "irregular"
    THEN CASE k = "empty" -> <<>>
           [] k = "prefixOnly" -> c.prefix
           [] k = "noSpelling" -> c.prefix \o c.suffix
    ELSE c.prefix \o Spelling(c.style, T) \o c.suffix

FFN(T) == FFNText(compiler, irregularKind, T)

\* p + u for a pointer p into lit and an unsigned u.
PtrAdd(lit, p, u) ==
  IF p = OutOfBounds \/ u < 0 \/ p + u > Len(lit) + 1
    THEN OutOfBounds
    ELSE p + u

\* p points to a character of lit or to its terminator.
Readable(lit, p) == p # OutOfBounds /\ p <= Len(lit)

\* *p for a readable p.
Deref(lit, p) == IF p < Len(lit) THEN lit[p + 1] ELSE NUL

\* Compile Time Length: CTL(p, tail) for a readable p.
RECURSIVE CTL(_, _, _)
CTL(lit, p, tail) ==
  IF Deref(lit, p) # NUL
    THEN CTL(lit, p + 1, tail + 1)
    ELSE tail

\* CTFV reporting the offset one character late (tail - 3).
RECURSIVE CTFV_LateStart(_, _, _, _)
CTFV_LateStart(lit, p, tail, match) ==
  IF 4 = match THEN tail - 3
  ELSE IF Deref(lit, p) # NUL
         THEN CTFV_LateStart(lit, p + 1, tail + 1,
                             IF VoidLiteral[match + 1] = Deref(lit, p)
                               THEN match + 1 ELSE 0)
         ELSE -1

\* CTFV reporting offset 0 when the literal is not found.
RECURSIVE CTFV_ZeroWhenMissing(_, _, _, _)
CTFV_ZeroWhenMissing(lit, p, tail, match) ==
  IF 4 = match THEN tail - 4
  ELSE IF Deref(lit, p) # NUL
         THEN CTFV_ZeroWhenMissing(lit, p + 1, tail + 1,
                                   IF VoidLiteral[match + 1] = Deref(lit, p)
                                     THEN match + 1 ELSE 0)
         ELSE 0

\* Compile Time Find Void: CTFV(p, tail, match) for a readable p.
RECURSIVE CTFV(_, _, _, _)
CTFV(lit, p, tail, match) ==
  IF 4 = match THEN tail - 4
  ELSE IF Deref(lit, p) # NUL
         THEN CTFV(lit, p + 1, tail + 1,
                   IF VoidLiteral[match + 1] = Deref(lit, p)
                     THEN match + 1 ELSE 0)
         ELSE -1

Idle == [active |-> FALSE, type |-> "void", N |-> 0, Gen |-> 0, Is |-> <<>>,
         steps |-> 0]

Init ==
  /\ compiler \in Compilers
  /\ irregularKind \in IrregularKinds
  /\ build = "ok"
  /\ pc = "start"
  /\ s_OffsetStart = 0
  /\ s_OffsetREnd = 0
  /\ cur = Idle
  /\ records = EmptyBag
  /\ requested = {}
  /\ ret = {}
  /\ scanIn = <<>>
  /\ scanOut = {}

\* constexpr unsigned s_OffsetStart{ CTFV(FFN<void>()) };
CalibrateStart ==
  /\ build = "ok"
  /\ pc = "start"
  /\ s_OffsetStart' = CTFV(FFN("void"), 0, 0, 0)
  /\ pc' = "rend"
  /\ UNCHANGED <<compiler, irregularKind, build, s_OffsetREnd, cur, records,
                 requested, ret, scanIn, scanOut>>

\* constexpr unsigned s_OffsetREnd{ CTL(FFN<void>() + s_OffsetStart + 4) };
CalibrateREnd ==
  /\ build = "ok"
  /\ pc = "rend"
  /\ LET p == PtrAdd(FFN("void"), PtrAdd(FFN("void"), 0, s_OffsetStart), 4) IN
       IF ~Readable(FFN("void"), p)
         THEN /\ build' = "failed"
              /\ UNCHANGED <<s_OffsetREnd, pc>>
         ELSE /\ s_OffsetREnd' = CTL(FFN("void"), p, 0)
              /\ pc' = "ready"
              /\ UNCHANGED build
  /\ UNCHANGED <<compiler, irregularKind, s_OffsetStart, cur, records,
                 requested, ret, scanIn, scanOut>>

\* s_Len without the subtraction of the suffix length.
s_Len_KeepsSuffix(T) ==
  CTL(FFN(T), PtrAdd(FFN(T), 0, s_OffsetStart), 0)

\* s_Len measured on the signature of void instead of that of T.
s_Len_OfVoid(T) ==
  CTL(FFN("void"), PtrAdd(FFN("void"), 0, s_OffsetStart), 0) - s_OffsetREnd

\* TNH<T>::s_Len{ CTL(FFN<T>() + s_OffsetStart) - s_OffsetREnd }
\* for FFN<T>() + s_OffsetStart readable.
s_Len(T) ==
  CTL(FFN(T), PtrAdd(FFN(T), 0, s_OffsetStart), 0) - s_OffsetREnd

\* FFN<T>() + s_OffsetStart, the argument of CTL and of STN in TNH<T>.
NameStart(T) == PtrAdd(FFN(T), 0, s_OffsetStart)

\* Every use of TNH<T> makes a new object.
TNHExists_Never(recs, T) == FALSE

\* A specialisation TNH<T> has one s_Str object however often it is named
\* (static data member of a class template, defined once per T).
TNHExists(recs, T) == \E r \in BagToSet(recs) : r.type = T

TNHOf(recs, T) == {r \in BagToSet(recs) : r.type = T}

\* The peeled index put at the end of the list.
ISeqPeel_Append(Gen, Is) == [Gen |-> Gen - 1, Is |-> Is \o <<Gen - 1>>]

\* ISeq<N, Gen, Is...>::STN -> ISeq<N, Gen - 1, Gen - 1, Is...>::STN
ISeqPeel(Gen, Is) == [Gen |-> Gen - 1, Is |-> <<Gen - 1>> \o Is]

\* The gather reading from the start of the literal instead of from p.
STN_FromLiteralStart(lit, p, Is) ==
  IF \E i \in 1..Len(Is) : ~Readable(lit, PtrAdd(lit, 0, Is[i]))
    THEN <<>>
    ELSE [i \in 1..Len(Is) |-> Deref(lit, PtrAdd(lit, 0, Is[i]))] \o <<NUL>>

\* ISeq<N, 0, Is...>::STN : { inLiteral[Is]..., '\0' } with inLiteral = p.
\* <<>> stands for an evaluation that reads outside the literal.
STN(lit, p, Is) ==
  IF \E i \in 1..Len(Is) : ~Readable(lit, PtrAdd(lit, p, Is[i]))
    THEN <<>>
    ELSE [i \in 1..Len(Is) |-> Deref(lit, PtrAdd(lit, p, Is[i]))] \o <<NUL>>

\* CSW<size>{ inits } : aggregate initialisation of const char val[size];
\* elements without an initialiser are zero, excess initialisers are an error.
CSW(size, inits) ==
  IF inits = <<>> \/ Len(inits) > size
    THEN <<>>
    ELSE [i \in 1..size |-> IF i <= Len(inits) THEN inits[i] ELSE NUL]

\* GetName<T>() : names TNH<T>::s_Str.val; the first use of TNH<T> starts its
\* instantiation with s_Len.
GetName(T) ==
  /\ build = "ok"
  /\ pc = "ready"
  /\ ~cur.active
  /\ requested' = requested \cup {T}
  /\ IF TNHExists(records, T)
       THEN /\ ret' = {[rec |-> r, first |-> FALSE] : r \in TNHOf(records, T)}
            /\ UNCHANGED <<cur, build>>
       ELSE /\ ret' = {}
            /\ IF ~Readable(FFN(T), NameStart(T))
                 THEN /\ build' = "failed"
                      /\ UNCHANGED cur
                 ELSE /\ cur' = [active |-> TRUE, type |-> T, N |-> s_Len(T),
                                 Gen |-> s_Len(T), Is |-> <<>>, steps |-> 0]
                      /\ UNCHANGED build
  /\ UNCHANGED <<compiler, irregularKind, pc, s_OffsetStart, s_OffsetREnd,
                 records, scanIn, scanOut>>

\* One step of the recursion of the primary template (Gen > 0).
STNPeel ==
  /\ build = "ok"
  /\ cur.active
  /\ cur.Gen # 0
  /\ cur.steps < MaxPeel
  /\ cur' = [cur EXCEPT !.Gen = ISeqPeel(cur.Gen, cur.Is).Gen,
                        !.Is = ISeqPeel(cur.Gen, cur.Is).Is,
                        !.steps = @ + 1]
  /\ UNCHANGED <<compiler, irregularKind, build, pc, s_OffsetStart,
                 s_OffsetREnd, records, requested, ret, scanIn, scanOut>>

\* The Gen = 0 specialisation: gather, initialise TNH<T>::s_Str, and the
\* pending GetName<T>() refers to it.
STNFloor ==
  /\ build = "ok"
  /\ cur.active
  /\ cur.Gen = 0
  /\ LET val == CSW(cur.N + 1,
                    STN(FFN(cur.type), NameStart(cur.type), cur.Is))
         rec == [type |-> cur.type, s_Len |-> cur.N, s_Str |-> val]
     IN IF val = <<>>
          THEN /\ build' = "failed"
               /\ UNCHANGED <<records, ret>>
          ELSE /\ records' = records (+) SetToBag({rec})
               /\ ret' = {[rec |-> rec, first |-> TRUE]}
               /\ UNCHANGED build
  /\ cur' = Idle
  /\ UNCHANGED <<compiler, irregularKind, pc, s_OffsetStart, s_OffsetREnd,
                 requested, scanIn, scanOut>>

Next ==
  \/ CalibrateStart
  \/ CalibrateREnd
  \/ \E T \in Types : GetName(T)
  \/ STNPeel
  \/ STNFloor

Spec == Init /\ [][Next]_vars

\* ------------------------------------------------ scan specification (CTFV)
ScanAlphabet == {"v", "o", "i", "d", "x"}

ScanInputs == UNION {[1..n -> ScanAlphabet] : n \in 0..MaxScanLen}

InitScan ==
  /\ scanIn \in ScanInputs
  /\ scanOut = {}
  /\ compiler = [style |-> "gnu", prefix |-> GnuPrefix, suffix |-> GnuSuffix]
  /\ irregularKind = "noSpelling"
  /\ build = "ok"
  /\ pc = "start"
  /\ s_OffsetStart = 0
  /\ s_OffsetREnd = 0
  /\ cur = Idle
  /\ records = EmptyBag
  /\ requested = {}
  /\ ret = {}

\* CTFV(inLiteral) with the default arguments tail = 0, match = 0.
ScanApply ==
  /\ scanOut = {}
  /\ scanOut' = {CTFV(scanIn, 0, 0, 0)}
  /\ UNCHANGED <<compiler, irregularKind, build, pc, s_OffsetStart,
                 s_OffsetREnd, cur, records, requested, ret, scanIn>>

NextScan == ScanApply

SpecScan == InitScan /\ [][NextScan]_vars

\* ------------------------------------- instantiation specification (ISeq)
\* The translation right after the first GetName<T>() that follows a
\* completed calibration: TNH<T>::s_Len is known and ISeq<s_Len>::STN is to
\* be instantiated.
InitISeq ==
  /\ compiler \in Compilers
  /\ irregularKind \in IrregularKinds
  /\ build = "ok"
  /\ pc = "ready"
  /\ s_OffsetStart = CTFV(FFN("void"), 0, 0, 0)
  /\ Readable(FFN("void"), PtrAdd(FFN("void"), PtrAdd(FFN("void"), 0, s_OffsetStart), 4))
  /\ s_OffsetREnd = CTL(FFN("void"), s_OffsetStart + 4, 0)
  /\ \E T \in Types :
       /\ Readable(FFN(T), NameStart(T))
       /\ cur = [active |-> TRUE, type |-> T, N |-> s_Len(T),
                 Gen |-> s_Len(T), Is |-> <<>>, steps |-> 0]
       /\ requested = {T}
  /\ records = EmptyBag
  /\ ret = {}
  /\ scanIn = <<>>
  /\ scanOut = {}

NextISeq ==
  \/ STNPeel
  \/ STNFloor

\* The translation proceeds: a pending template instantiation is carried out.
SpecISeq ==
  InitISeq /\ [][NextISeq]_vars /\ WF_vars(STNPeel) /\ WF_vars(STNFloor)

\* ------------------------------------------------------------- properties
Records == BagToSet(records)

\* word occurs in lit at offset i (0-based).
OccursAt(lit, word, i) ==
  /\ i >= 0
  /\ i + Len(word) <= Len(lit)
  /\ SubSeq(lit, i + 1, i + Len(word)) = word

Contains(lit, word) == \E i \in 0..Len(lit) : OccursAt(lit, word, i)

\* The signature of T is the boilerplate of the environment around a spelling.
HasLayout(T) ==
  /\ Len(FFN(T)) >= Len(compiler.prefix) + Len(compiler.suffix)
  /\ SubSeq(FFN(T), 1, Len(compiler.prefix)) = compiler.prefix
  /\ SubSeq(FFN(T), Len(FFN(T)) - Len(compiler.suffix) + 1, Len(FFN(T)))
       = compiler.suffix

\* The spelling of T inside a signature that has the layout.
SpellingOf(T) ==
  SubSeq(FFN(T), Len(compiler.prefix) + 1, Len(FFN(T)) - Len(compiler.suffix))

\* C1: whenever the calibration scan reports a match in the signature of
\* void, the four characters at s_OffsetStart are "void", the length computed
\* for void is 4 and the array GetName<void>() names is 'v','o','i','d','\0'.
C1_VoidName ==
  /\ (pc # "start" /\ s_OffsetStart # -1)
       => OccursAt(FFN("void"), VoidLiteral, s_OffsetStart)
  /\ (cur.active /\ cur.type = "void") => cur.N = 4
  /\ \A r \in Records :
       r.type = "void" => /\ r.s_Len = 4
                          /\ r.s_Str = <<"v", "o", "i", "d", NUL>>

C1_Witness ==
  \E x \in ret : x.rec.type = "void" /\ x.first /\ Len(x.rec.s_Str) = 5

\* C2: for a type whose signature is the boilerplate of void's signature
\* around a spelling, s_Len is the signature's length minus s_OffsetStart
\* minus s_OffsetREnd, and that is the number of characters of the spelling.
C2_LengthIsSpellingLength ==
  \A T \in Types :
    HasLayout(T) =>
      /\ (cur.active /\ cur.type = T) =>
           /\ cur.N = Len(FFN(T)) - s_OffsetStart - s_OffsetREnd
           /\ cur.N = Len(SpellingOf(T))
      /\ \A r \in Records :
           r.type = T => /\ r.s_Len = Len(FFN(T)) - s_OffsetStart - s_OffsetREnd
                         /\ r.s_Len = Len(SpellingOf(T))

C2_Witness ==
  /\ \E r \in Records : r.type = "irregular" /\ HasLayout("irregular")
                        /\ r.s_Len = 0
  /\ \E r \in Records : r.type = "structy<classy>" /\ r.s_Len >= 15

\* C3: the array of a Name Record has s_Len + 1 elements, element i < s_Len
\* is the character of the signature at s_OffsetStart + i, the last element
\* is the terminator and no earlier element is.
C3_ArrayIsSpan ==
  /\ \A r \in Records :
       /\ r.s_Len >= 0
       /\ Len(r.s_Str) = r.s_Len + 1
       /\ \A i \in 0..(r.s_Len - 1) :
            /\ s_OffsetStart + i < Len(FFN(r.type))
            /\ r.s_Str[i + 1] = FFN(r.type)[s_OffsetStart + i + 1]
            /\ r.s_Str[i + 1] # NUL
       /\ r.s_Str[r.s_Len + 1] = NUL
  /\ \A x \in ret : x.rec \in Records

C3_Witness ==
  \E x \in ret : x.rec.type = "structy<classy> const&" /\ x.rec.s_Len >= 22

\* C4: when "void" does not occur in the signature of void, calibration never
\* completes: no s_OffsetREnd is produced, no length is computed and no Name
\* Record exists; the translation fails at s_OffsetREnd.
C4_NoVoidNoOffsets ==
  ~Contains(FFN("void"), VoidLiteral) =>
    /\ pc # "ready"
    /\ s_OffsetREnd = 0
    /\ ~cur.active
    /\ records = EmptyBag
    /\ ret = {}

C4_Witness ==
  /\ ~Contains(FFN("void"), VoidLiteral)
  /\ pc = "rend"
  /\ build = "failed"

CalibratedOnLayout ==
  /\ pc = "ready"
  /\ s_OffsetStart = Len(compiler.prefix)
  /\ s_OffsetREnd = Len(compiler.suffix)

\* C6: two types whose signatures share the calibrated prefix and suffix and
\* whose spellings differ have different character sequences as names.
C6_DistinctNames ==
  CalibratedOnLayout =>
    \A a, b \in Records :
      (/\ HasLayout(a.type)
       /\ HasLayout(b.type)
       /\ SpellingOf(a.type) # SpellingOf(b.type)) => a.s_Str # b.s_Str

C6_Witness ==
  /\ CalibratedOnLayout
  /\ \E a, b \in Records : a.type = "classy" /\ b.type = "classy*"

\* C7: with g++ and clang++ the names of classy* and of structy<classy> const&
\* are "classy" and "structy<classy>", the names of the unqualified types.
C7_QualifiersDropped ==
  (compiler.prefix \in {GnuPrefix, ClangPrefix}) =>
    \A r \in Records :
      /\ r.type = "classy*"
           => r.s_Str = <<"c","l","a","s","s","y", NUL>>
      /\ r.type = "structy<classy> const&"
           => r.s_Str = <<"s","t","r","u","c","t","y","<","c","l","a","s","s","y",">", NUL>>
      /\ \A q \in Records :
           (/\ q.type = "classy" /\ r.type = "classy*") => q.s_Str = r.s_Str

\* Number of Name Records of type T.
RecordCount(recs, T) ==
  LET ofT == {r \in BagToSet(recs) : r.type = T}
      RECURSIVE Sum(_)
      Sum(S) == IF S = {} THEN 0
                ELSE LET r == CHOOSE x \in S : TRUE
                     IN CopiesIn(r, recs) + Sum(S \ {r})
  IN Sum(ofT)

\* A request of T has completed.
Completed(T) ==
  /\ T \in requested
  /\ build = "ok"
  /\ ~(cur.active /\ cur.type = T)

C8_State ==
  /\ \A T \in Types : RecordCount(records, T) <= 1
  /\ \A T \in Types : Completed(T) => RecordCount(records, T) = 1
  /\ \A x \in ret : CopiesIn(x.rec, records) = 1

C8_Step ==
  /\ pc = "ready" => /\ pc' = "ready"
                     /\ s_OffsetStart' = s_OffsetStart
                     /\ s_OffsetREnd' = s_OffsetREnd
  /\ \A r \in Records : CopiesIn(r, records') = CopiesIn(r, records)
  /\ \A x \in ret' : ~x.first => /\ records' = records
                                 /\ x.rec \in Records

\* C8: once calibrated the Offset Pair never changes; there is exactly one
\* Name Record per type whose request completed; a repeated GetName<T>()
\* refers to the record the first request made and changes no record.
C8_Stable == []C8_State /\ [][C8_Step]_vars

C8_Witness ==
  /\ \E x \in ret : ~x.first /\ x.rec.type = "classy"
  /\ Cardinality(Records) >= 3

\* C9: on an input that contains "void", CTFV(input) is the offset of the
\* first occurrence.
C9_FirstOccurrence ==
  \A out \in scanOut :
    Contains(scanIn, VoidLiteral) =>
      /\ OccursAt(scanIn, VoidLiteral, out)
      /\ \A j \in 0..Len(scanIn) : OccursAt(scanIn, VoidLiteral, j) => out <= j

C10_State ==
  cur.active =>
    /\ cur.Gen + cur.steps = cur.N
    /\ Len(cur.Is) = cur.steps
    /\ \A i \in 1..Len(cur.Is) : cur.Is[i] = cur.Gen + i - 1
    /\ cur.Gen = 0 => /\ cur.steps = cur.N
                      /\ cur.Is = [i \in 1..cur.N |-> i - 1]

\* C10: during ISeq<N>::STN the index list is Gen, Gen + 1, ..., N - 1 and
\* N - Gen steps were taken; at Gen = 0 the list is 0, 1, ..., N - 1 after
\* exactly N steps (empty after none when N = 0); the recursion reaches
\* Gen = 0 and the instantiation ends.
C10_IndexSequence ==
  /\ []C10_State
  /\ (cur.active /\ cur.N >= 0) ~> (~cur.active)

C10_Witness ==
  /\ cur.active
  /\ cur.Gen = 0
  /\ cur.N >= 6
  /\ cur.Is = [i \in 1..cur.N |-> i - 1]

====
